---- MODULE Spec2Model ----
(***************************************************************************)
(* A model of baldr's resource API layer (src/baldr/api.py): the class     *)
(* level allowed-method lists, the construction of APIs composed of        *)
(* capability mixins, the route table, the dispatcher and the view wrapper *)
(* with its exception-to-response mapping.                                 *)
(*                                                                         *)
(* Python values are records tagged by a `type` field; an optional value   *)
(* is a sequence of length 0 (None) or 1.  User supplied code (hooks,      *)
(* delegates, action handlers) is drawn from the sets named in an          *)
(* environment record when, and only when, the code reaches it.            *)
(***************************************************************************)
EXTENDS Integers, Sequences, FiniteSets, TLC

VARIABLES
    list_allowed_methods,    \* ResourceApi.list_allowed_methods, one list object shared by every class
    detail_allowed_methods,  \* ResourceApi.detail_allowed_methods, shared likewise
    apis,                    \* the API instances constructed so far: each is its class's tuple of bases
    request,                 \* the request the wrapper last served
    trace,                   \* the calls made while serving it, in order
    outcome,                 \* how the view callback (the dispatcher) ended
    response,                \* what the wrapper gave back to the server
    collection,              \* the ApiCollection object, once constructed: its attributes
    url_reads,               \* the APIs whose `urls` the collection has read, in the order of the reads
    returned_urls,           \* what the last access of the collection's `urls` returned
    accesses                 \* the accesses of the collection's `urls` so far

collection_vars == <<collection, url_reads, returned_urls, accesses>>

vars == <<list_allowed_methods, detail_allowed_methods, apis, request, trace, outcome, response,
          collection_vars>>

---------------------------------------------------------------------------
(* Bounds *)

\* API instances constructed in one process.
MaxApis == 2
\* Capability mixins a concrete API class lists as bases.
MaxMixins == 2
\* Accesses of an ApiCollection's route table.
MaxAccesses == 3

---------------------------------------------------------------------------
(* Python values *)

None == [type |-> "None"]
Tuple(items) == [type |-> "tuple", items |-> items]

\* A resource instance of the API's resource type.
Widget == [type |-> "Widget", name |-> "x"]
\* Another one, to tell the items of a list apart.
Gadget == [type |-> "Widget", name |-> "y"]
\* A value no codec can encode (not a resource).
Opaque == [type |-> "object"]

\* baldr.resources.Error(status, code, message, developer_message=None, meta=None)
Error(status, code, message, developer_message, meta) ==
    [type |-> "Error", status |-> status, code |-> code, message |-> message,
     developer_message |-> developer_message, meta |-> meta]

\* baldr.resources.Listing(objects, limit, offset)
Listing(objects, limit, offset) ==
    [type |-> "Listing", objects |-> objects, limit |-> limit, offset |-> offset]

---------------------------------------------------------------------------
(* Classes, bases and attribute lookup *)

Mixins == {"ActionMixin", "ListMixin", "CreateMixin", "RetrieveMixin", "UpdateMixin", "DeleteMixin"}

\* The concrete API classes: class Api(<bases>), the bases being distinct
\* mixins in some order; no base at all stands for class Api(ResourceApi).
ApiClasses ==
    UNION {{b \in [1..n -> Mixins] : \A j, k \in 1..n : j # k => b[j] # b[k]} : n \in 0..MaxMixins}

\* Python's method resolution order of class Api(<bases>): every mixin
\* derives from ResourceApi alone, so the linearisation is the bases in
\* order, then ResourceApi, then ResourceApiBase.
Mro(bases) == bases \o <<"ResourceApi", "ResourceApiBase">>

\* The attributes each class body defines.
ClassAttrs(cls) ==
    CASE cls = "ResourceApiBase" ->
            {"__init__", "url", "urls", "resolve_content_type", "handle_500", "wrap_view",
             "base_urls", "dispatch", "method_check", "handle_authorisation"}
      [] cls = "ResourceApi" ->
            {"list_allowed_methods", "detail_allowed_methods", "resource_id_regex",
             "base_urls", "dispatch_list", "dispatch_detail"}
      [] cls = "ActionMixin" -> {"base_urls", "dispatch_list_action", "dispatch_detail_action"}
      [] cls = "ListMixin" -> {"get_list", "list_resources"}
      [] cls = "CreateMixin" -> {"__init__", "post_list", "put_list", "create_resource"}
      [] cls = "RetrieveMixin" -> {"get_detail", "retrieve_resource"}
      [] cls = "UpdateMixin" -> {"__init__", "post_list", "put_list", "update_resource"}
      [] cls = "DeleteMixin" -> {"__init__", "delete_detail", "delete_resource"}
      [] OTHER -> {}

\* The class of `mro` that an attribute lookup of `name` finds, "" if none.
RECURSIVE Owner(_, _)
Owner(mro, name) ==
    IF mro = <<>> THEN ""
    ELSE IF name \in ClassAttrs(Head(mro)) THEN Head(mro)
    ELSE Owner(Tail(mro), name)

\* The classes after `cls` in `mro`: where super(cls, self) looks.
RECURSIVE After(_, _)
After(mro, cls) ==
    IF mro = <<>> THEN <<>>
    ELSE IF Head(mro) = cls THEN Tail(mro)
    ELSE After(Tail(mro), cls)

---------------------------------------------------------------------------
(* Construction *)

\* The class attributes as the class statement of ResourceApi leaves them.
ClassLists == [list |-> <<"get">>, detail |-> <<"get">>]

\* CreateMixin.__init__: the rest of the chain first (`after`), then the append.
\* self.list_allowed_methods is found on the class ResourceApi, so the append
\* changes the one list every API reads.
CreateMixin_init(after) == [after EXCEPT !.list = Append(@, "post")]

\* UpdateMixin.__init__
UpdateMixin_init(after) == [after EXCEPT !.detail = Append(@, "post")]

\* DeleteMixin.__init__
DeleteMixin_init(after) == [after EXCEPT !.detail = Append(@, "delete")]

\* The chain of __init__ calls over `mro`, each calling super().__init__
\* before its own statement; a class without __init__ is passed over, and
\* ResourceApiBase.__init__ touches the api name only.
RECURSIVE init_chain(_, _)
init_chain(mro, lists) ==
    IF mro = <<>> THEN lists
    ELSE LET after == init_chain(Tail(mro), lists)
         IN  CASE Head(mro) = "CreateMixin" -> CreateMixin_init(after)
               [] Head(mro) = "UpdateMixin" -> UpdateMixin_init(after)
               [] Head(mro) = "DeleteMixin" -> DeleteMixin_init(after)
               [] OTHER -> after

\* The constructions of the classes `all`, one after the other.
RECURSIVE init_all(_, _)
init_all(all, lists) ==
    IF all = <<>> THEN lists
    ELSE init_all(Tail(all), init_chain(Mro(Head(all)), lists))

---------------------------------------------------------------------------
(* Routes *)

Route(regex, view) == [regex |-> regex, view |-> view]

ListRoute == Route("", "dispatch_list")
DetailRoute == Route("(?P<resource_id>\\d+)", "dispatch_detail")
ListActionRoute == Route("(?P<action>[-\\w\\d]+)", "dispatch_list_action")
DetailActionRoute == Route("(?P<resource_id>\\d+)/(?P<action>[-\\w\\d]+)", "dispatch_detail_action")

RECURSIVE base_urls_from(_, _)
\* super(ResourceApi, self).base_urls(): the lookup starts after ResourceApi.
ResourceApi_base_urls(mro) ==
    base_urls_from(mro, After(mro, "ResourceApi")) \o <<ListRoute, DetailRoute>>

\* ActionMixin.base_urls names ResourceApi, not ActionMixin, in its super
\* call, so the lookup starts after ResourceApi here too.
ActionMixin_base_urls(mro) ==
    base_urls_from(mro, After(mro, "ResourceApi")) \o <<ListActionRoute, DetailActionRoute>>

\* self.base_urls() looked up along `search`, a suffix of self's `mro`.
base_urls_from(mro, search) ==
    LET cls == Owner(search, "base_urls")
    IN  CASE cls = "ActionMixin" -> ActionMixin_base_urls(mro)
          [] cls = "ResourceApi" -> ResourceApi_base_urls(mro)
          [] OTHER -> <<>>

\* ResourceApiBase.urls
urls(bases) == base_urls_from(Mro(bases), Mro(bases))

Views(bases) == {urls(bases)[k].view : k \in 1..Len(urls(bases))}

---------------------------------------------------------------------------
(* Exceptions *)

Exc(cls, message, status, resource, headers, message_dict) ==
    [cls |-> cls, message |-> message, status |-> status, resource |-> resource,
     headers |-> headers, message_dict |-> message_dict]

NoExc == Exc("", "", 0, None, {}, <<>>)

Http404(message) == Exc("Http404", message, 0, None, {}, <<>>)
PermissionDenied(message) == Exc("PermissionDenied", message, 0, None, {}, <<>>)
NotImplementedError == Exc("NotImplementedError", "", 0, None, {}, <<>>)
TypeError(message) == Exc("TypeError", message, 0, None, {}, <<>>)
ValueError(message) == Exc("ValueError", message, 0, None, {}, <<>>)
\* odin.exceptions.ValidationError: message_dict exists when the error was
\* built from a mapping of field name to messages.
ValidationError(message, message_dict) == Exc("ValidationError", message, 0, None, {}, message_dict)
\* baldr.exceptions.ImmediateHttpResponse(resource, status=200, headers=None)
ImmediateHttpResponse(resource, status, headers) ==
    Exc("ImmediateHttpResponse", "", status, resource, headers, <<>>)
\* baldr.exceptions.ImmediateErrorHttpResponse(status, code, message, ..., headers=None):
\* an ImmediateHttpResponse whose resource is the Error built from its arguments.
ImmediateErrorHttpResponse(status, code, message, headers) ==
    Exc("ImmediateErrorHttpResponse", "", status, Error(status, code, message, <<>>, <<>>),
        headers, <<>>)

\* The classes an exception class derives from, itself included.
Ancestors(cls) ==
    CASE cls = "ImmediateErrorHttpResponse" ->
            {"ImmediateErrorHttpResponse", "ImmediateHttpResponse", "Exception"}
      [] cls \in {"TypeError", "ValueError"} -> {cls, "StandardError", "Exception"}
      [] cls = "NotImplementedError" -> {cls, "RuntimeError", "StandardError", "Exception"}
      [] OTHER -> {cls, "Exception"}

isinstance(e, cls) == cls \in Ancestors(e.cls)

\* str(exception)
str(e) == e.message

---------------------------------------------------------------------------
(* Codecs and responses *)

JSON == "application/json"
MSGPACK == "application/x-msgpack"

\* registered_codecs = CODECS, in a build where msgpack can be imported.
registered_codecs == {JSON, MSGPACK}

\* What a codec can encode: resources and the containers of them.
RECURSIVE Encodable(_)
Encodable(value) ==
    CASE value.type = "object" -> FALSE
      [] value.type = "tuple" -> \A k \in 1..Len(value.items) : Encodable(value.items[k])
      [] OTHER -> TRUE

\* codec.dumps(resource), for a value the codec can encode.
dumps(codec, resource) == [codec |-> codec, data |-> resource]

\* codec.loads(data, resource=...): <<>> when the bytes are not this codec's.
loads(codec, data) == IF data.codec = codec THEN <<data.data>> ELSE <<>>

\* django.http.HttpResponse(content, content_type, status): without a
\* content type Django falls back to its own default.
DjangoDefaultContentType == "text/html; charset=utf-8"
HttpResponse(content, content_type, status) ==
    [kind |-> "http", status |-> status, content |-> content, content_type |-> content_type,
     headers |-> {}]

\* The wrapper did not return: the exception went on to the server.
Propagated(e) == [kind |-> "raised", exc |-> e]

NoResponse == [kind |-> "none"]

---------------------------------------------------------------------------
(* The view wrapper's exception mapping and result shaping *)

UnknownErrorMessage == "An unknown error has occurred, the developers have been notified."

\* handle_500 giving the details whatever settings.DEBUG is.
handle_500_detailed(exception, debug) ==
    Error(500, 50000, UnknownErrorMessage, <<str(exception)>>,
          <<"Traceback: " \o exception.cls \o ": " \o str(exception)>>)

\* ResourceApiBase.handle_500: `debug` is settings.DEBUG; the stack trace is
\* the formatted exception, which names its class and its text.
handle_500(exception, debug) ==
    IF debug
    THEN Error(500, 50000, UnknownErrorMessage, <<str(exception)>>,
               <<"Traceback: " \o exception.cls \o ": " \o str(exception)>>)
    ELSE Error(500, 50000, UnknownErrorMessage, <<>>, <<>>)

\* What an except clause leaves: status and resource for the common tail.
Fall(status, resource) == [kind |-> "fall", status |-> status, resource |-> resource]

\* The ImmediateHttpResponse clause: the response is built and returned in
\* the handler itself, with the exception's headers set on it; dumps is in
\* no try of its own, so its failure leaves the wrapper.
wrapper_immediate(codec, e) ==
    IF Encodable(e.resource)
    THEN [HttpResponse(<<dumps(codec, e.resource)>>, codec, e.status) EXCEPT !.headers = e.headers]
    ELSE Propagated(TypeError("is not serializable"))

\* wrapper_except without its PermissionDenied clause: the denial falls
\* through to the clause for any other exception.
wrapper_except_no_denied(codec, e, debug) ==
    IF isinstance(e, "Http404") THEN Fall(404, Error(404, 40400, str(e), <<>>, <<>>))
    ELSE IF isinstance(e, "ImmediateHttpResponse")
        THEN [kind |-> "return", response |-> wrapper_immediate(codec, e)]
    ELSE IF isinstance(e, "ValidationError") THEN
        IF e.message_dict # <<>>
        THEN Fall(400, Error(400, 40000, "Fields failed validation.", <<>>, e.message_dict))
        ELSE Fall(400, Error(400, 40000, str(e), <<>>, <<>>))
    ELSE IF isinstance(e, "NotImplementedError")
        THEN Fall(501, Error(501, 50100, "This method has not been implemented.", <<>>, <<>>))
    ELSE LET resource == handle_500(e, debug) IN Fall(resource.status, resource)

\* The except clauses of the wrapper in their order: the first clause whose
\* class the exception is an instance of handles it.
wrapper_except(codec, e, debug) ==
    IF isinstance(e, "Http404") THEN Fall(404, Error(404, 40400, str(e), <<>>, <<>>))
    ELSE IF isinstance(e, "ImmediateHttpResponse")
        THEN [kind |-> "return", response |-> wrapper_immediate(codec, e)]
    ELSE IF isinstance(e, "ValidationError") THEN
        IF e.message_dict # <<>>
        THEN Fall(400, Error(400, 40000, "Fields failed validation.", <<>>, e.message_dict))
        ELSE Fall(400, Error(400, 40000, str(e), <<>>, <<>>))
    ELSE IF isinstance(e, "PermissionDenied")
        THEN Fall(403, Error(403, 40300, "Permission denied", <<str(e)>>, <<>>))
    ELSE IF isinstance(e, "NotImplementedError")
        THEN Fall(501, Error(501, 50100, "This method has not been implemented.", <<>>, <<>>))
    ELSE LET resource == handle_500(e, debug) IN Fall(resource.status, resource)

\* The except clause that calls handle_500, which reads settings.DEBUG.
ReachesHandle500(e) ==
    \A cls \in {"Http404", "ImmediateHttpResponse", "ValidationError", "PermissionDenied",
                "NotImplementedError"} : ~isinstance(e, cls)

\* wrapper_else without the 204 of a None result.
wrapper_else_always_200(result) ==
    IF result.type = "tuple" /\ Len(result.items) = 2
    THEN Fall(result.items[2], result.items[1])
    ELSE Fall(200, result)

\* The else clause: the dispatcher returned `result`.
wrapper_else(result) ==
    IF result.type = "tuple" /\ Len(result.items) = 2
    THEN Fall(result.items[2], result.items[1])
    ELSE Fall(IF result = None THEN 204 ELSE 200, result)

\* The common tail: an empty response for None, the encoded resource
\* otherwise; dumps is outside every try, so its failure leaves the wrapper.
wrapper_tail(codec, fall) ==
    IF fall.resource = None THEN HttpResponse(<<>>, DjangoDefaultContentType, fall.status)
    ELSE IF Encodable(fall.resource)
        THEN HttpResponse(<<dumps(codec, fall.resource)>>, codec, fall.status)
    ELSE Propagated(TypeError("is not serializable"))

\* wrapper, from the callback's end on: `out` is how the callback ended.
wrapper_finish(codec, out, debug) ==
    LET left == IF out.tag = "raised" THEN wrapper_except(codec, out.exc, debug)
                ELSE wrapper_else(out.value)
    IN  IF left.kind = "return" THEN left.response ELSE wrapper_tail(codec, left)

---------------------------------------------------------------------------
(* The dispatcher's pure steps *)

ApiName == "widgets"

Methods == {"GET", "POST", "PUT", "DELETE"}

\* str.lower on a request method
lower(m) ==
    CASE m = "GET" -> "get" [] m = "POST" -> "post" [] m = "PUT" -> "put"
      [] m = "DELETE" -> "delete" [] OTHER -> m

\* str.upper on an allowed verb
upper(m) ==
    CASE m = "get" -> "GET" [] m = "post" -> "POST" [] m = "put" -> "PUT"
      [] m = "delete" -> "DELETE" [] OTHER -> m

\* ','.join(map(str.upper, allowed))
RECURSIVE join_upper(_)
join_upper(allowed) ==
    IF allowed = <<>> THEN ""
    ELSE IF Len(allowed) = 1 THEN upper(allowed[1])
    ELSE upper(allowed[1]) \o "," \o join_upper(Tail(allowed))

Elems(seq) == {seq[k] : k \in 1..Len(seq)}

\* method_check without its test of the method against the list.
method_check_any_method(method, allowed) ==
    IF allowed = <<>>
    THEN [exc |-> Http404(ApiName \o " not found."), request_method |-> ""]
    ELSE [exc |-> NoExc, request_method |-> lower(method)]

\* ResourceApiBase.method_check: allowed is <<>> for None and <<list>> for
\* a list.  Gives the lower-cased method, or the exception raised.
method_check(method, allowed) ==
    LET request_method == lower(method)
    IN  IF allowed = <<>>
        THEN [exc |-> Http404(ApiName \o " not found."), request_method |-> ""]
        ELSE IF request_method \notin Elems(allowed[1])
        THEN [exc |-> ImmediateErrorHttpResponse(405, 40500, "Method not allowed",
                                                 {<<"Allow", join_upper(allowed[1])>>}),
              request_method |-> ""]
        ELSE [exc |-> NoExc, request_method |-> request_method]

\* How a call ended.
Returned(value) == [tag |-> "returned", value |-> value, exc |-> NoExc]
Raised(e) == [tag |-> "raised", value |-> None, exc |-> e]
NoOutcome == [tag |-> "none", value |-> None, exc |-> NoExc]

\* One call of the trace.
Ev(step, args) == [step |-> step, args |-> args]

\* A Python list.
List(items) == [type |-> "list", items |-> items]

\* A Python dict of keyword arguments: `items` is a set of <<name, value>>.
Dict(items) == [type |-> "dict", items |-> items]

\* int(text) for the query strings of the model: <<>> stands for ValueError.
int(text) ==
    CASE text = "0" -> <<0>> [] text = "1" -> <<1>> [] text = "2" -> <<2>>
      [] text = "3" -> <<3>> [] text = "50" -> <<50>> [] OTHER -> <<>>

\* Keyword arguments are sets of <<name, value>> pairs.
KwNames(kwargs) == {p[1] : p \in kwargs}
KwValue(kwargs, name) == (CHOOSE p \in kwargs : p[1] = name)[2]

IsAction(view) == view \in {"dispatch_list_action", "dispatch_detail_action"}
IsDetail(view) == view \in {"dispatch_detail", "dispatch_detail_action"}

\* The request type each view passes to dispatch:
\* dispatch_list, dispatch_detail, dispatch_list_action, dispatch_detail_action.
request_type(view, action) ==
    CASE view = "dispatch_list" -> "list"
      [] view = "dispatch_detail" -> "detail"
      [] view = "dispatch_list_action" -> action \o "_list"
      [] view = "dispatch_detail_action" -> action \o "_detail"

\* The keyword arguments the route leaves for dispatch: the named groups of
\* its regex, less `action`, which the action views take themselves.
route_kwargs(req) == IF IsDetail(req.view) THEN {<<"resource_id", req.resource_id>>} ELSE {}

\* "User" stands for the concrete API class, which defines the handlers of
\* its actions; a handler of a mixin is named by the mixin.
\* The parameters (after request) each handler's signature names.
Params(owner, name, req) ==
    CASE owner \in {"ListMixin", "CreateMixin"} -> {}
      [] owner \in {"RetrieveMixin", "UpdateMixin", "DeleteMixin"} -> {"resource_id"}
      [] OTHER -> KwNames(route_kwargs(req))

\* Whether the handler starts with request.codec.loads(request.data, ...).
Decodes(owner) == owner \in {"CreateMixin", "UpdateMixin"}

\* The abstract method the handler delegates to.
Delegate(owner) ==
    CASE owner = "ListMixin" -> "list_resources"
      [] owner = "CreateMixin" -> "create_resource"
      [] owner = "RetrieveMixin" -> "retrieve_resource"
      [] owner = "UpdateMixin" -> "update_resource"
      [] owner = "DeleteMixin" -> "delete_resource"
      [] OTHER -> "handler"

\* The arguments (after request) the handler passes to its delegate:
\* is_complete is False in post_list and True in put_list.
DelegateArgs(owner, name, kwargs, resource, offset, limit) ==
    CASE owner = "ListMixin" -> <<offset, limit>>
      [] owner = "CreateMixin" -> <<resource, name = "put_list">>
      [] owner = "UpdateMixin" -> <<KwValue(kwargs, "resource_id"), resource, name = "put_list">>
      [] owner \in {"RetrieveMixin", "DeleteMixin"} -> <<KwValue(kwargs, "resource_id")>>
      [] OTHER -> <<>>

\* get_list with the limit and the offset handed to Listing in the order of
\* list_resources' parameters.
get_list_swapped(result, offset, limit) ==
    IF result.type \in {"list", "tuple"}
    THEN [tag |-> "returned", value |-> Listing(result.items, offset, limit), exc |-> NoExc]
    ELSE [tag |-> "raised", value |-> None, exc |-> TypeError("object is not iterable")]

\* ListMixin.get_list, from the return of list_resources on: the Listing
\* holds every item the iteration of the result yields.
get_list(result, offset, limit) ==
    IF result.type \in {"list", "tuple"}
    THEN Returned(Listing(result.items, limit, offset))
    ELSE Raised(TypeError("object is not iterable"))

\* CreateMixin.post_list, from the return of create_resource on: both
\* branches of its `if result is None` end without a value.
CreateMixin_post_list(result) == Returned(None)

\* What the handler returns once its delegate returned `result`.
HandlerReturn(owner, name, result, offset, limit) ==
    CASE owner = "ListMixin" -> get_list(result, offset, limit)
      [] owner = "CreateMixin" /\ name = "post_list" -> CreateMixin_post_list(result)
      [] OTHER -> Returned(result)

\* resolve_content_type passing over a content type that has no registered
\* codec, to try the next resolver.
resolve_content_type_registered(chain) ==
    LET ks == {k \in 1..Len(chain) : chain[k] # <<>> /\ chain[k][1] \in registered_codecs}
    IN  IF ks = {} THEN <<>> ELSE chain[CHOOSE k \in ks : \A j \in ks : k <= j]

\* ResourceApiBase.resolve_content_type: `chain` holds what each resolver of
\* content_type_resolvers gives for the request, in their order (the Accept
\* header, the Content-Type header, the configured default); the first
\* content type given is returned, None (<<>>) if there is none.
RECURSIVE resolve_content_type(_)
resolve_content_type(chain) ==
    IF chain = <<>> THEN <<>>
    ELSE IF Head(chain) # <<>> THEN Head(chain)
    ELSE resolve_content_type(Tail(chain))

\* getattr(self, name, None) for a handler name: the mixin that defines it,
\* "User" when the concrete class does, "" for None.
Handler(bases, name, user_defined) ==
    IF user_defined THEN "User" ELSE Owner(Mro(bases), name)

---------------------------------------------------------------------------
(* Serving a request: the wrapper and the dispatcher, step by step.  D is  *)
(* the environment: for each piece of user code and each request content   *)
(* the code may reach, the set of ways it can turn out.                    *)

NoRequest == [api |-> 0, method |-> "", view |-> "", action |-> "", resource_id |-> ""]

\* A wrapper whose dispatcher registers the verb of a request it refused.
Finish_registering(req, tr, out, resp) ==
    /\ request' = req
    /\ trace' = tr
    /\ outcome' = out
    /\ response' = resp
    /\ list_allowed_methods' =
          IF resp.kind = "http" /\ resp.status = 405 /\ req.view = "dispatch_list"
          THEN Append(list_allowed_methods, lower(req.method)) ELSE list_allowed_methods
    /\ UNCHANGED <<detail_allowed_methods, apis, collection_vars>>

\* The wrapper's return (or raise) ends the request: neither the wrapper nor
\* the dispatcher assigns to, or appends to, an allowed-method list.
Finish(req, tr, out, resp) ==
    /\ request' = req
    /\ trace' = tr
    /\ outcome' = out
    /\ response' = resp
    /\ UNCHANGED <<list_allowed_methods, detail_allowed_methods, apis, collection_vars>>

\* wrapper, lines 116-154: the callback ended as `out`.
wrapper_after_callback(D, req, codec, tr, out) ==
    \E debug \in (IF out.tag = "raised" /\ ReachesHandle500(out.exc) THEN D.debug ELSE {FALSE}) :
        Finish(req,
               IF out.tag = "raised" /\ ReachesHandle500(out.exc)
               THEN Append(tr, Ev("handle_500", <<debug>>)) ELSE tr,
               out, wrapper_finish(codec, out, debug))

\* dispatch, lines 186-190: the post_dispatch hook, if the class has one;
\* what it returns is what dispatch returns.
dispatch_post(D, req, codec, tr, result) ==
    \E post \in D.post :
        IF ~post.defined THEN wrapper_after_callback(D, req, codec, tr, Returned(result))
        ELSE LET tr1 == Append(tr, Ev("post_dispatch", <<result>>))
             IN  IF post.exc # NoExc
                 THEN wrapper_after_callback(D, req, codec, tr1, Raised(post.exc))
                 ELSE wrapper_after_callback(D, req, codec,
                                             Append(tr1, Ev("post_returned", <<post.value>>)),
                                             Returned(post.value))

\* dispatch, line 184: method(request, **kwargs), the handler's body included.
dispatch_execute(D, req, codec, tr, owner, name, kwargs) ==
    IF KwNames(kwargs) # Params(owner, name, req)
    THEN wrapper_after_callback(D, req, codec, Append(tr, Ev("call", <<owner, name, kwargs>>)),
                                Raised(TypeError("unexpected keyword arguments")))
    ELSE
    \E data \in (IF Decodes(owner) THEN D.data ELSE {dumps(codec, None)}) :
    \E query \in (IF owner = "ListMixin" THEN D.query ELSE {[offset |-> <<>>, limit |-> <<>>]}) :
        LET tr0 == Append(tr, Ev("call", <<owner, name, kwargs>>))
            tr1 == IF owner = "ListMixin" THEN Append(tr0, Ev("GET", <<query>>)) ELSE tr0
            loaded == loads(codec, data)
            offset == IF query.offset = <<>> THEN <<0>> ELSE int(query.offset[1])
            limit == IF query.limit = <<>> THEN <<50>> ELSE int(query.limit[1])
        IN  IF Decodes(owner) /\ loaded = <<>>
            THEN wrapper_after_callback(D, req, codec, Append(tr1, Ev("loads", <<data>>)),
                                        Raised(ValueError("could not decode")))
            ELSE IF owner = "ListMixin" /\ (offset = <<>> \/ limit = <<>>)
            THEN wrapper_after_callback(D, req, codec, tr1,
                                        Raised(ValueError("invalid literal for int()")))
            ELSE
            \E user \in D.delegates :
                LET args == DelegateArgs(owner, name, kwargs,
                                         IF Decodes(owner) THEN loaded[1] ELSE None,
                                         offset[1], limit[1])
                    tr2 == Append(tr1, Ev(Delegate(owner), args))
                IN  IF ~user.overridden /\ owner # "User"
                    THEN wrapper_after_callback(D, req, codec, tr2, Raised(NotImplementedError))
                    ELSE IF user.exc # NoExc
                    THEN wrapper_after_callback(D, req, codec, tr2, Raised(user.exc))
                    ELSE LET ret == HandlerReturn(owner, name, user.value, offset[1], limit[1])
                             tr3 == Append(tr2, Ev("returned", <<user.value>>))
                         IN  IF ret.tag = "raised"
                             THEN wrapper_after_callback(D, req, codec, tr3, ret)
                             ELSE dispatch_post(D, req, codec, tr3, ret.value)

\* dispatch_pre adding what the hook returns to the keyword arguments, in
\* place of replacing them by it.
dispatch_pre_merging(D, req, codec, tr, owner, name, kwargs) ==
    \E pre \in D.pre :
        IF ~pre.defined THEN dispatch_execute(D, req, codec, tr, owner, name, kwargs)
        ELSE LET tr1 == Append(tr, Ev("pre_dispatch", <<kwargs>>))
                 tr2 == Append(tr1, Ev("pre_returned", <<pre.response>>))
             IN  IF pre.exc # NoExc
                 THEN wrapper_after_callback(D, req, codec, tr1, Raised(pre.exc))
                 ELSE IF pre.response = <<>>
                 THEN dispatch_execute(D, req, codec, tr2, owner, name, kwargs)
                 ELSE IF pre.response[1].type # "dict"
                 THEN wrapper_after_callback(D, req, codec, tr2,
                                             Raised(TypeError("argument after ** must be a mapping")))
                 ELSE dispatch_execute(D, req, codec, tr2, owner, name,
                                       {p \in kwargs : p[1] \notin KwNames(pre.response[1].items)}
                                           \cup pre.response[1].items)

\* dispatch, lines 178-184: the pre_dispatch hook, if the class has one; what
\* it returns, unless None, takes the place of the keyword arguments, and
\* method(request, **kwargs) raises TypeError, before the handler is entered,
\* when that is not a mapping.
dispatch_pre(D, req, codec, tr, owner, name, kwargs) ==
    \E pre \in D.pre :
        IF ~pre.defined THEN dispatch_execute(D, req, codec, tr, owner, name, kwargs)
        ELSE LET tr1 == Append(tr, Ev("pre_dispatch", <<kwargs>>))
                 tr2 == Append(tr1, Ev("pre_returned", <<pre.response>>))
             IN  IF pre.exc # NoExc
                 THEN wrapper_after_callback(D, req, codec, tr1, Raised(pre.exc))
                 ELSE IF pre.response = <<>>
                 THEN dispatch_execute(D, req, codec, tr2, owner, name, kwargs)
                 ELSE IF pre.response[1].type # "dict"
                 THEN wrapper_after_callback(D, req, codec, tr2,
                                             Raised(TypeError("argument after ** must be a mapping")))
                 ELSE dispatch_execute(D, req, codec, tr2, owner, name, pre.response[1].items)

\* dispatch_lookup with its test for a missing handler left out: the hooks
\* and the call go ahead with what getattr gave.
dispatch_lookup_unchecked(D, bases, req, codec, tr, request_method, rtype, kwargs) ==
    \E user_defined \in (IF IsAction(req.view) THEN D.user_handlers ELSE {FALSE}) :
        LET name == request_method \o "_" \o rtype
            owner == Handler(bases, name, user_defined)
            tr1 == Append(tr, Ev("getattr", <<name, owner>>))
        IN  dispatch_pre(D, req, codec, tr1, owner, name, kwargs)

\* dispatch, lines 174-176: the handler named "<method>_<request type>".
dispatch_lookup(D, bases, req, codec, tr, request_method, rtype, kwargs) ==
    \E user_defined \in (IF IsAction(req.view) THEN D.user_handlers ELSE {FALSE}) :
        LET name == request_method \o "_" \o rtype
            owner == Handler(bases, name, user_defined)
            tr1 == Append(tr, Ev("getattr", <<name, owner>>))
        IN  IF owner = ""
            THEN wrapper_after_callback(D, req, codec, tr1, Raised(NotImplementedError))
            ELSE dispatch_pre(D, req, codec, tr1, owner, name, kwargs)

\* dispatch going from the method check to the handler lookup without the
\* call of handle_authorisation.
dispatch_authorise_skipped(D, bases, req, codec, tr, request_method, rtype, kwargs) ==
    dispatch_lookup(D, bases, req, codec, tr, request_method, rtype, kwargs)

\* dispatch, line 172: handle_authorisation does nothing unless the concrete
\* class overrides it, and then it may raise.
dispatch_authorise(D, bases, req, codec, tr, request_method, rtype, kwargs) ==
    \E auth \in D.auth :
        LET tr1 == Append(tr, Ev("handle_authorisation", <<>>))
        IN  IF auth # NoExc
            THEN wrapper_after_callback(D, req, codec, tr1, Raised(auth))
            ELSE dispatch_lookup(D, bases, req, codec, tr1, request_method, rtype, kwargs)

\* dispatch, lines 167-168: getattr(self, "<request type>_allowed_methods", [])
\* finds the class lists for list and detail and, for any other request type,
\* what the concrete class declares, [] when it declares nothing.
dispatch(D, bases, req, codec, tr, rtype, kwargs) ==
    LET attr == rtype \o "_allowed_methods"
        found == Owner(Mro(bases), attr)
    IN  \E entry \in (IF found = "" THEN D.entries ELSE {[declared |-> FALSE, value |-> <<>>]}) :
            LET allowed == IF attr = "list_allowed_methods" THEN <<list_allowed_methods>>
                           ELSE IF attr = "detail_allowed_methods" THEN <<detail_allowed_methods>>
                           ELSE IF entry.declared THEN entry.value
                           ELSE <<<<>>>>
                checked == method_check(req.method, allowed)
                tr1 == Append(tr, Ev("method_check", <<allowed>>))
            IN  IF checked.exc # NoExc
                THEN wrapper_after_callback(D, req, codec, tr1, Raised(checked.exc))
                ELSE dispatch_authorise(D, bases, req, codec, tr1, checked.request_method,
                                        rtype, kwargs)

NotAcceptable ==
    HttpResponse(<<[codec |-> "", data |-> [type |-> "str",
                    value |-> "Content cannot be returned in the format requested."]]>>,
                 DjangoDefaultContentType, 406)

\* wrap_view(view)'s wrapper, lines 104-115.
wrapper(D, bases, req) ==
    \E chain \in D.chains :
        LET content_type == resolve_content_type(chain)
            tr == <<Ev("resolve_content_type", <<content_type, chain>>)>>
        IN  IF content_type = <<>> \/ content_type[1] \notin registered_codecs
            THEN Finish(req, tr, NoOutcome, NotAcceptable)
            ELSE dispatch(D, bases, req, content_type[1], tr,
                          request_type(req.view, req.action), route_kwargs(req))

---------------------------------------------------------------------------
(* Environments *)

Undeclared == [declared |-> FALSE, value |-> <<>>]
Declared(value) == [declared |-> TRUE, value |-> value]

NoHook == [defined |-> FALSE, exc |-> NoExc, response |-> <<>>, value |-> None]
PreReturns(kwargs) == [defined |-> TRUE, exc |-> NoExc, response |-> kwargs, value |-> None]
PostReturns(value) == [defined |-> TRUE, exc |-> NoExc, response |-> <<>>, value |-> value]
HookRaises(e) == [defined |-> TRUE, exc |-> e, response |-> <<>>, value |-> None]

Abstract == [overridden |-> FALSE, exc |-> NoExc, value |-> None]
UserReturns(value) == [overridden |-> TRUE, exc |-> NoExc, value |-> value]
UserRaises(e) == [overridden |-> TRUE, exc |-> e, value |-> None]

NoQuery == [offset |-> <<>>, limit |-> <<>>]

Actions == {"summary"}
ResourceIds == {"1"}

\* What user code can raise: one exception of each class the wrapper tells
\* apart, the validation error with and without per-field messages, the
\* immediate response with a resource the codec can and cannot encode.
UserExceptions ==
    {Http404("no such widget"),
     ImmediateHttpResponse(Widget, 202, {<<"X-Extra", "1">>}),
     ImmediateHttpResponse(Opaque, 202, {}),
     ValidationError("name: required", <<>>),
     ValidationError("", <<[name |-> "This field is required."]>>),
     PermissionDenied("not yours"),
     NotImplementedError,
     TypeError("boom")}

\* What user code can return.
UserValues ==
    {None, Widget, Opaque, List(<<Widget, Gadget, Widget>>),
     Tuple(<<Widget, 201>>), Tuple(<<None, 202>>), Tuple(<<Widget, Widget, Widget>>)}

\* An unexceptional application: no hooks, authorisation passes, the
\* delegates may be left abstract, the action kinds may be declared or not.
PlainEnv ==
    [chains |-> {<< <<>>, <<>>, <<JSON>> >>},
     entries |-> {Undeclared, Declared(<<>>), Declared(<< <<>> >>), Declared(<< <<"get">> >>)},
     auth |-> {NoExc},
     user_handlers |-> BOOLEAN,
     pre |-> {NoHook},
     post |-> {NoHook},
     data |-> {dumps(JSON, Widget)},
     query |-> {NoQuery},
     delegates |-> {Abstract, UserReturns(Widget), UserReturns(List(<<Widget>>))},
     debug |-> {FALSE}]

\* Every way the user code and the request can turn out.
FullEnv ==
    [chains |-> {<< <<>>, <<>>, <<JSON>> >>, << <<JSON>>, <<>>, <<JSON>> >>,
                 << <<MSGPACK>>, <<>>, <<JSON>> >>, << <<>>, <<MSGPACK>>, <<JSON>> >>,
                 << <<>>, <<>>, <<>> >>, << <<"text/xml">>, <<JSON>>, <<JSON>> >>},
     entries |-> {Undeclared, Declared(<<>>), Declared(<< <<>> >>), Declared(<< <<"get">> >>)},
     auth |-> {NoExc} \cup UserExceptions,
     user_handlers |-> BOOLEAN,
     pre |-> {NoHook, PreReturns(<<>>), PreReturns(<<Dict({})>>),
              PreReturns(<<Dict({<<"resource_id", "2">>})>>), PreReturns(<<Widget>>)}
             \cup {HookRaises(e) : e \in UserExceptions},
     post |-> {NoHook} \cup {PostReturns(v) : v \in {None, Tuple(<<Widget, 202>>)}}
              \cup {HookRaises(e) : e \in UserExceptions},
     data |-> {dumps(JSON, Widget), dumps(MSGPACK, Widget)},
     query |-> {NoQuery, [offset |-> <<"0">>, limit |-> <<"2">>],
                [offset |-> <<"1">>, limit |-> <<"3">>], [offset |-> <<"x">>, limit |-> <<>>]},
     delegates |-> {Abstract} \cup {UserReturns(v) : v \in UserValues}
                   \cup {UserRaises(e) : e \in UserExceptions},
     debug |-> BOOLEAN]

---------------------------------------------------------------------------
(* The collection of APIs and its route table *)

\* The routes of the API at index i of the process, as entries of a table.
Entries(i, routes) == [k \in 1..Len(routes) |-> [api |-> i, route |-> routes[k]]]

\* ApiCollection.urls, lines 408-410: the loop over self.resource_apis, each
\* turn reading resource_api.urls and extending the table by it.
RECURSIVE extend(_, _)
extend(all, members) ==
    IF members = <<>> THEN [urls |-> <<>>, reads |-> <<>>]
    ELSE LET rest == extend(all, Tail(members))
         IN  [urls |-> Entries(Head(members), urls(all[Head(members)])) \o rest.urls,
              reads |-> <<Head(members)>> \o rest.reads]

\* ApiCollection.__init__: no _urls attribute yet (<<>>).
ApiCollection(members) == [api_name |-> "api", resource_apis |-> members, _urls |-> <<>>]

\* The urls property without its test for the attribute.
ApiCollection_urls_uncached(self, all) ==
    LET built == extend(all, self.resource_apis)
    IN  [self |-> [self EXCEPT !._urls = <<built.urls>>], result |-> built.urls,
         reads |-> built.reads]

\* ApiCollection.urls: the table is built and kept when the object has no
\* _urls attribute, and self._urls is returned in either case.
ApiCollection_urls(self, all) ==
    IF self._urls = <<>>
    THEN LET built == extend(all, self.resource_apis)
         IN  [self |-> [self EXCEPT !._urls = <<built.urls>>], result |-> built.urls,
              reads |-> built.reads]
    ELSE [self |-> self, result |-> self._urls[1], reads |-> <<>>]

\* No collection has been constructed.
NoCollection ==
    /\ collection = <<>>
    /\ url_reads = <<>>
    /\ returned_urls = <<>>
    /\ accesses = 0

---------------------------------------------------------------------------
(* Actions *)

Init ==
    /\ list_allowed_methods = ClassLists.list
    /\ detail_allowed_methods = ClassLists.detail
    /\ apis = <<>>
    /\ request = NoRequest
    /\ trace = <<>>
    /\ outcome = NoOutcome
    /\ response = NoResponse
    /\ NoCollection

\* Api(): an instance of the class with bases `bases` is constructed.
Construct ==
    \E bases \in ApiClasses :
        LET lists == init_chain(Mro(bases), [list |-> list_allowed_methods,
                                             detail |-> detail_allowed_methods])
        IN  /\ Len(apis) < MaxApis
            /\ response = NoResponse
            /\ list_allowed_methods' = lists.list
            /\ detail_allowed_methods' = lists.detail
            /\ apis' = Append(apis, bases)
            /\ UNCHANGED <<request, trace, outcome, response, collection_vars>>

\* The requests the routes of api i can bring to its wrapper.
Requests(i) ==
    {[api |-> i, method |-> m, view |-> v, action |-> a, resource_id |-> r] :
        m \in Methods, v \in Views(apis[i]), a \in Actions \cup {""}, r \in ResourceIds \cup {""}}

Routed(req) ==
    /\ (req.action # "") = IsAction(req.view)
    /\ (req.resource_id # "") = IsDetail(req.view)

\* The server routes a request to the wrapper of one of the APIs.
Serve(D) ==
    \E i \in 1..Len(apis) :
        \E req \in {r \in Requests(i) : Routed(r)} :
            /\ response = NoResponse
            /\ wrapper(D, apis[i], req)

ServePlain == Serve(PlainEnv)
ServeFull == Serve(FullEnv)

\* The server sends the response; the request is over.
Deliver ==
    /\ response # NoResponse
    /\ request' = NoRequest
    /\ trace' = <<>>
    /\ outcome' = NoOutcome
    /\ response' = NoResponse
    /\ UNCHANGED <<list_allowed_methods, detail_allowed_methods, apis, collection_vars>>

Next == Construct \/ ServePlain \/ Deliver

\* A process that constructs APIs and serves unexceptional requests.
Spec == Init /\ [][Next]_vars

\* One API, constructed in a fresh process.
InitDispatch ==
    \E bases \in ApiClasses :
        LET lists == init_chain(Mro(bases), ClassLists)
        IN  /\ list_allowed_methods = lists.list
            /\ detail_allowed_methods = lists.detail
            /\ apis = <<bases>>
            /\ request = NoRequest
            /\ trace = <<>>
            /\ outcome = NoOutcome
            /\ response = NoResponse
            /\ NoCollection

NextDispatch == ServeFull \/ Deliver

\* One API serving requests in every environment.
SpecDispatch == InitDispatch /\ [][NextDispatch]_vars

\* The classes of the APIs put in a collection: one of each shape of route
\* table, with and without a mixin that has an __init__ of its own.
CollectedClasses == {b \in ApiClasses : Len(b) <= 1}

\* The APIs of the process have been constructed, one after the other.
InitCollection ==
    \E n \in 0..MaxApis :
        \E all \in [1..n -> CollectedClasses] :
            /\ apis = all
            /\ list_allowed_methods = init_all(all, ClassLists).list
            /\ detail_allowed_methods = init_all(all, ClassLists).detail
            /\ request = NoRequest
            /\ trace = <<>>
            /\ outcome = NoOutcome
            /\ response = NoResponse
            /\ NoCollection

\* ApiCollection(*resource_apis): some of the APIs, each once, in some order.
NewCollection ==
    \E n \in 0..Len(apis) :
        \E members \in [1..n -> 1..Len(apis)] :
            /\ collection = <<>>
            /\ \A j, k \in 1..n : j # k => members[j] # members[k]
            /\ collection' = <<ApiCollection(members)>>
            /\ UNCHANGED <<list_allowed_methods, detail_allowed_methods, apis, request, trace,
                           outcome, response, url_reads, returned_urls, accesses>>

\* collection.urls is read (by include, by patterns, or by the application).
AccessUrls ==
    /\ collection # <<>>
    /\ accesses < MaxAccesses
    /\ LET got == ApiCollection_urls(collection[1], apis)
       IN  /\ collection' = <<got.self>>
           /\ url_reads' = url_reads \o got.reads
           /\ returned_urls' = <<got.result>>
    /\ accesses' = accesses + 1
    /\ UNCHANGED <<list_allowed_methods, detail_allowed_methods, apis, request, trace,
                   outcome, response>>

NextCollection == NewCollection \/ AccessUrls

\* A process that collects its APIs and reads the collection's route table.
SpecCollection == InitCollection /\ [][NextCollection]_vars

---------------------------------------------------------------------------
(* Properties *)

\* The wrapper has served `request`.
Served == response # NoResponse

\* The API that served it.
Self == apis[request.api]

\* The calls of the trace named `step`.
Calls(step) == {k \in 1..Len(trace) : trace[k].step = step}

\* The dispatcher ran its method check; Allowed is the list it checked against.
MethodChecked == Served /\ Calls("method_check") # {}
AllowedArg == trace[CHOOSE k \in Calls("method_check") : TRUE].args[1]

\* The codec the wrapper negotiated.
Codec == trace[1].args[1][1]

\* The value of a response header, <<>> when it is not set.
Header(resp, name) ==
    IF \E h \in resp.headers : h[1] = name
    THEN <<(CHOOSE h \in resp.headers : h[1] = name)[2]>>
    ELSE <<>>

\* The resource a response body encodes.
Body(resp) == resp.content[1].data

IsError(resp, status, code) ==
    /\ resp.kind = "http"
    /\ resp.status = status
    /\ resp.content # <<>>
    /\ Body(resp).type = "Error"
    /\ Body(resp).status = status
    /\ Body(resp).code = code

\* The ways of writing the members of `set` once each, upper-cased and comma-joined.
ListingsOf(set) ==
    {join_upper(order) : order \in {o \in [1..Cardinality(set) -> set] :
                                      \A j, k \in 1..Cardinality(set) : j # k => o[j] # o[k]}}

\* C1: a request whose verb is not in its kind's allowed methods is answered
\* 405 with an Allow header naming exactly the kind's allowed verbs, each
\* once, upper-cased and comma-joined, whatever APIs were constructed before.
C1_NotAllowedGives405WithAllow ==
    (MethodChecked /\ AllowedArg # <<>> /\ lower(request.method) \notin Elems(AllowedArg[1]))
        => /\ response.kind = "http"
           /\ response.status = 405
           /\ Header(response, "Allow") # <<>>
           /\ Header(response, "Allow")[1] \in ListingsOf(Elems(AllowedArg[1]))

\* C2: a request for a kind with no allowed-methods entry, or an empty one,
\* is answered 404 with code 40400, for every verb.
C2_NoEntryGives404 ==
    (MethodChecked /\ AllowedArg = << <<>> >>) => IsError(response, 404, 40400)

\* The row of the error table for an exception of class `cls`.
ErrorRow(cls) ==
    CASE cls = "Http404" -> [status |-> 404, code |-> 40400]
      [] cls = "ValidationError" -> [status |-> 400, code |-> 40000]
      [] cls = "PermissionDenied" -> [status |-> 403, code |-> 40300]
      [] cls = "NotImplementedError" -> [status |-> 501, code |-> 50100]
      [] OTHER -> [status |-> 500, code |-> 50000]

IsImmediate(e) == e.cls \in {"ImmediateHttpResponse", "ImmediateErrorHttpResponse"}

\* C3: an exception raised while the dispatcher runs is answered by its
\* category alone: not found 404/40400, an immediate response its own status,
\* resource and headers, a validation failure 400/40000 with the per-field
\* messages as meta when it has them, permission denied 403/40300, not
\* implemented 501/50100, anything else 500/50000.  (An immediate response
\* is answered so when its resource is one the codec encodes.)
C3_ExceptionCategoryFixesResponse ==
    (Served /\ outcome.tag = "raised") =>
        LET e == outcome.exc
        IN  IF IsImmediate(e)
            THEN Encodable(e.resource) =>
                    /\ response.kind = "http"
                    /\ response.status = e.status
                    /\ response.content = <<dumps(Codec, e.resource)>>
                    /\ response.headers = e.headers
            ELSE /\ IsError(response, ErrorRow(e.cls).status, ErrorRow(e.cls).code)
                 /\ (e.cls = "ValidationError" /\ e.message_dict # <<>>)
                        => Body(response).meta = e.message_dict

\* C3, reached: a handler's validation failure with per-field messages was
\* answered 400/40000 with those messages as meta.
C3_Witness ==
    /\ Served
    /\ outcome.tag = "raised"
    /\ outcome.exc.cls = "ValidationError"
    /\ outcome.exc.message_dict # <<>>
    /\ Calls("call") # {}
    /\ IsError(response, 400, 40000)
    /\ Body(response).meta = <<[name |-> "This field is required."]>>

\* C4: the wrapper is total: whichever step fails, it ends by returning a
\* response and no exception leaves it.
C4_WrapperAlwaysReturns == Served => response.kind = "http"

\* C5: when the dispatcher returns, a (resource, status) pair is answered
\* with that status and the encoded resource, any other value but None with
\* 200 and the encoded value, None with an empty 204, and a pair whose
\* resource is None with the pair's status and an empty body.  (The encoded
\* value is that of a value the codec encodes.)
C5_ResultShapesResponse ==
    (Served /\ outcome.tag = "returned") =>
        LET result == outcome.value
            pair == result.type = "tuple" /\ Len(result.items) = 2
            resource == IF pair THEN result.items[1] ELSE result
            status == IF pair THEN result.items[2] ELSE IF result = None THEN 204 ELSE 200
        IN  IF resource = None
            THEN response.kind = "http" /\ response.status = status /\ response.content = <<>>
            ELSE Encodable(resource) =>
                    /\ response.kind = "http"
                    /\ response.status = status
                    /\ response.content = <<dumps(Codec, resource)>>

\* C5, reached: a handler's (resource, 201) pair was answered 201 with the
\* encoded resource.
C5_Witness ==
    /\ Served
    /\ outcome = Returned(Tuple(<<Widget, 201>>))
    /\ Calls("call") # {}
    /\ response.kind = "http"
    /\ response.status = 201
    /\ response.content = <<dumps(Codec, Widget)>>

\* A DELETE on the detail route of an API that does not compose the Delete mixin.
DeleteWithoutMixin ==
    /\ Served
    /\ request.view = "dispatch_detail"
    /\ request.method = "DELETE"
    /\ "DeleteMixin" \notin Elems(Self)

\* C6, as claimed: a DELETE on the detail route of an API that does not
\* compose the Delete mixin is answered 501 with code 50100, because no
\* delete_detail handler is found.
C6_DeleteWithoutMixinGives501 == DeleteWithoutMixin => IsError(response, 501, 50100)

\* C6, amended: such a DELETE is never answered 404; it is answered 405 with
\* the Allow header of the detail list as long as `delete` is not in that
\* list, and 501 with code 50100 once `delete` is in it (which only the
\* construction of an API that composes Delete brings about).
C6_DeleteWithoutMixinGives405 ==
    DeleteWithoutMixin =>
        IF "delete" \in Elems(detail_allowed_methods)
        THEN IsError(response, 501, 50100)
        ELSE /\ IsError(response, 405, 40500)
             /\ Header(response, "Allow") = <<join_upper(detail_allowed_methods)>>

\* C6, reached: the DELETE was refused by the method check.
C6_Witness ==
    /\ DeleteWithoutMixin
    /\ "delete" \notin Elems(detail_allowed_methods)
    /\ response.status = 405
    /\ Calls("getattr") = {}

\* The handler's delegate was called with `args`.
Delegated(name, args) == \E k \in Calls(name) : trace[k].args = args

\* C7: on an API that composes Update, POST and PUT on the detail route pass
\* the method check, find a handler and reach update_resource with the
\* route's resource id and the decoded body, is_complete being true for PUT
\* and false for POST.
C7_UpdateReachesUpdateResource ==
    (/\ Served
     /\ request.view = "dispatch_detail"
     /\ request.method \in {"POST", "PUT"}
     /\ "UpdateMixin" \in Elems(Self))
        => Delegated("update_resource", <<request.resource_id, Widget, request.method = "PUT">>)

\* C8: on an API that composes Create, POST and PUT on the list route pass
\* the method check and reach create_resource with the decoded body,
\* is_complete being true exactly for PUT.
C8_CreateReachesCreateResource ==
    (/\ Served
     /\ request.view = "dispatch_list"
     /\ request.method \in {"POST", "PUT"}
     /\ "CreateMixin" \in Elems(Self))
        => Delegated("create_resource", <<Widget, request.method = "PUT">>)

\* The orders of the bases `bases`.
Orders(bases) ==
    {o \in [1..Len(bases) -> Elems(bases)] : \A j, k \in 1..Len(bases) : j # k => o[j] # o[k]}

\* C9: the mixins are order-independent: whatever the order of an API's
\* bases, its routes are the same and every request that reaches the handler
\* lookup is bound to the same handler, so that POST on list reaches
\* create_resource on every API that composes Create.
C9_OrderIndependent ==
    /\ \A i \in 1..Len(apis) : \A o \in Orders(apis[i]) : urls(o) = urls(apis[i])
    /\ (Served /\ Calls("getattr") # {}) =>
          LET lookup == trace[CHOOSE k \in Calls("getattr") : TRUE].args
          IN  /\ \A o \in Orders(Self) : Handler(o, lookup[1], lookup[2] = "User") = lookup[2]
              /\ (request.view = "dispatch_list" /\ request.method = "POST"
                    /\ "CreateMixin" \in Elems(Self))
                    => Delegated("create_resource", <<Widget, FALSE>>)

\* C10: an API that composes Action has the two action routes and still has
\* the list route and the detail route, wherever Action stands in its bases.
C10_ActionKeepsListAndDetailRoutes ==
    \A i \in 1..Len(apis) :
        "ActionMixin" \in Elems(apis[i]) =>
            {ListRoute, DetailRoute, ListActionRoute, DetailActionRoute} \subseteq Elems(urls(apis[i]))

\* get_list got an iterable back from list_resources.
ListReturned ==
    /\ Served
    /\ Calls("list_resources") # {}
    /\ Calls("returned") # {}
    /\ trace[CHOOSE k \in Calls("returned") : TRUE].args[1].type \in {"list", "tuple"}

\* The items list_resources returned, the query of the request, and the
\* value get_list gave to the dispatcher.
ItemsReturned == trace[CHOOSE k \in Calls("returned") : TRUE].args[1].items
QueryOf == trace[CHOOSE k \in Calls("GET") : TRUE].args[1]
HandlerResult ==
    IF Calls("post_dispatch") # {}
    THEN trace[CHOOSE k \in Calls("post_dispatch") : TRUE].args[1]
    ELSE outcome.value

\* The offset and limit the query asks for, 0 and 50 when it names none.
RequestedOffset == IF QueryOf.offset = <<>> THEN 0 ELSE int(QueryOf.offset[1])[1]
RequestedLimit == IF QueryOf.limit = <<>> THEN 50 ELSE int(QueryOf.limit[1])[1]

\* The first n items of a sequence.
FirstItems(items, n) == SubSeq(items, 1, IF n < Len(items) THEN n ELSE Len(items))

\* C11, as claimed: the Listing get_list returns holds at most `limit` items,
\* the first `limit` of what list_resources returned, in order, and carries
\* the requested limit and offset (50 and 0 by default).
C11_ListingHoldsFirstLimitItems ==
    ListReturned =>
        /\ HandlerResult.type = "Listing"
        /\ Len(HandlerResult.objects) <= RequestedLimit
        /\ HandlerResult.objects = FirstItems(ItemsReturned, RequestedLimit)
        /\ HandlerResult.limit = RequestedLimit
        /\ HandlerResult.offset = RequestedOffset

\* C11, amended: the Listing holds every item list_resources returned, in
\* order (the limit and the offset are for list_resources to apply; get_list
\* cuts nothing), and carries the requested limit and offset (50 and 0 by
\* default).
C11_ListingHoldsReturnedItems ==
    ListReturned =>
        /\ HandlerResult = Listing(ItemsReturned, RequestedLimit, RequestedOffset)
        /\ Calls("list_resources") # {}
        /\ trace[CHOOSE k \in Calls("list_resources") : TRUE].args
              = <<RequestedOffset, RequestedLimit>>

\* C11, reached: offset=0 and limit=2 were asked for, list_resources gave
\* three items and the Listing holds the three, with limit 2 and offset 0.
C11_Witness ==
    /\ ListReturned
    /\ QueryOf = [offset |-> <<"0">>, limit |-> <<"2">>]
    /\ ItemsReturned = <<Widget, Gadget, Widget>>
    /\ outcome = Returned(Listing(<<Widget, Gadget, Widget>>, 2, 0))
    /\ response.status = 200

\* What each resolver gave for the request, in the resolvers' order.
Chain == trace[1].args[2]

\* The request names T in its Accept header and has no body (no
\* Content-Type header, a verb that carries none).
AcceptsWithoutBody(T) ==
    /\ Served
    /\ Chain[1] = <<T>>
    /\ Chain[2] = <<>>
    /\ request.method \in {"GET", "DELETE"}

\* C12: for every registered content type T, a request without a body whose
\* Accept header names T is answered with Content-Type T, whatever the
\* dispatch came to: a resource, an error resource or an empty 204.
C12_AcceptRoundTrip ==
    \A T \in registered_codecs :
        AcceptsWithoutBody(T) => (response.kind = "http" /\ response.content_type = T)

\* The resolvers that returned a content type for the request.
Answering == {k \in 1..Len(Chain) : Chain[k] # <<>>}

\* C13: the resolvers are tried in their order and the first that returns a
\* content type decides; if none returns one, or the one returned has no
\* registered codec, the request is answered by a plain 406 that no codec
\* encoded, and neither the dispatcher nor authorisation, a hook or a handler
\* is invoked for it.
C13_FirstResolverDecidesOr406 ==
    Served =>
        IF \E k \in Answering : (\A j \in Answering : k <= j) /\ Chain[k][1] \in registered_codecs
        THEN /\ Codec = Chain[CHOOSE k \in Answering : \A j \in Answering : k <= j][1]
             /\ Calls("method_check") # {}
        ELSE /\ response.kind = "http"
             /\ response.status = 406
             /\ response.content_type \notin registered_codecs
             /\ response.content # <<>>
             /\ response.content[1].codec = ""
             /\ outcome = NoOutcome
             /\ Len(trace) = 1

\* C13, reached: the first resolver named a type without a codec and the
\* request was refused with 406 although a later resolver named JSON.
C13_Witness ==
    /\ Served
    /\ Chain[1] = <<"text/xml">>
    /\ Chain[2] = <<JSON>>
    /\ response.status = 406
    /\ Calls("method_check") = {}

\* C14: handling a request never changes an allowed-method list: every step
\* that is not a construction (the wrapper serving a request, successful or
\* failing, the server delivering the response) leaves list_allowed_methods
\* and detail_allowed_methods as the last construction left them.
C14_RequestsKeepAllowedMethods ==
    [][apis' = apis => /\ list_allowed_methods' = list_allowed_methods
                       /\ detail_allowed_methods' = detail_allowed_methods]_vars

\* C14, reached: a refused PUT on the list route of an API that composes
\* Create was served, and the lists are what its construction left.
C14_Witness ==
    /\ Served
    /\ apis = << <<"CreateMixin">> >>
    /\ request.method = "PUT"
    /\ request.view = "dispatch_list"
    /\ response.status = 405
    /\ list_allowed_methods = <<"get", "post">>
    /\ detail_allowed_methods = <<"get">>

\* The wrapper passed the exception to handle_500; Debug is what
\* settings.DEBUG was then.
Unhandled == Served /\ Calls("handle_500") # {}
Debug == trace[CHOOSE k \in Calls("handle_500") : TRUE].args[1]

\* The one answer production gives to every unhandled exception.
Generic500(codec) ==
    HttpResponse(<<dumps(codec, Error(500, 50000, UnknownErrorMessage, <<>>, <<>>))>>, codec, 500)

\* C15: in production an unhandled exception is answered by the same generic
\* 500 whatever the exception was (the response is fixed by the negotiated
\* codec alone, and carries neither the exception's text nor a stack trace);
\* in debug mode the 500's body carries the exception's string and the stack
\* trace as well.
C15_Production500IsGeneric ==
    Unhandled =>
        IF Debug
        THEN /\ IsError(response, 500, 50000)
             /\ Body(response).message = UnknownErrorMessage
             /\ Body(response).developer_message = <<str(outcome.exc)>>
             /\ Body(response).meta # <<>>
        ELSE response = Generic500(Codec)

\* C15, reached: in production a handler's TypeError with a text of its own
\* was answered by the generic 500.
C15_Witness ==
    /\ Unhandled
    /\ ~Debug
    /\ outcome.exc = TypeError("boom")
    /\ Calls("call") # {}
    /\ IsError(response, 500, 50000)
    /\ Body(response).developer_message = <<>>
    /\ Body(response).meta = <<>>

\* The collection's route table has been read at least once.
UrlsRead == collection # <<>> /\ accesses >= 1

\* The routes of the collection's APIs, in the collection's order.
RECURSIVE TableOf(_)
TableOf(members) ==
    IF members = <<>> THEN <<>>
    ELSE Entries(Head(members), urls(apis[Head(members)])) \o TableOf(Tail(members))

\* C16: the route table of an ApiCollection is computed once: after the
\* first access, and after every later one, each API's routes have been
\* read exactly once, in collection order, and what the access returned is
\* the table kept in _urls, the routes of the APIs in that order.
C16_RouteTableComputedOnce ==
    UrlsRead =>
        /\ url_reads = collection[1].resource_apis
        /\ collection[1]._urls = <<TableOf(collection[1].resource_apis)>>
        /\ returned_urls = collection[1]._urls

\* C16, reached: a collection of two APIs has had its table read more than
\* once, and each API's routes were read once, in the collection's order.
C16_Witness ==
    /\ UrlsRead
    /\ accesses >= 2
    /\ collection[1].resource_apis = <<2, 1>>
    /\ url_reads = <<2, 1>>
    /\ Len(returned_urls[1]) = 4

\* The place in the trace of the one call of `step`, 0 when it was not made.
At(step) == IF Calls(step) = {} THEN 0 ELSE CHOOSE k \in Calls(step) : TRUE

\* `first` was called before `second`, if `second` was called at all.
Before(first, second) == At(second) # 0 => (At(first) # 0 /\ At(first) < At(second))

\* What the handler lookup looked for and found ("" for nothing).
LookedUp == trace[At("getattr")].args

\* C17: in one dispatch the method check, the handler lookup, the pre-hook,
\* the handler and the post-hook happen at most once each and in that order,
\* and a failing step ends the dispatch: the lookup is made only once the
\* method check passed, the pre-hook and the handler are invoked only once a
\* handler named <verb>_<kind> was found, a missing handler is answered as
\* not implemented with neither invoked, a pre-hook not followed by the
\* handler means the dispatch failed, and the post-hook runs only after the
\* handler returned.
C17_DispatchStepsInOrder ==
    Served =>
        /\ \A step \in {"method_check", "getattr", "pre_dispatch", "call", "post_dispatch"} :
              Cardinality(Calls(step)) <= 1
        /\ Before("method_check", "getattr")
        /\ Before("getattr", "pre_dispatch")
        /\ Before("getattr", "call")
        /\ At("pre_dispatch") # 0 => (At("call") = 0 \/ At("pre_dispatch") < At("call"))
        /\ Before("call", "returned")
        /\ Before("returned", "post_dispatch")
        /\ At("getattr") # 0 =>
              /\ AllowedArg # <<>>
              /\ lower(request.method) \in Elems(AllowedArg[1])
              /\ LookedUp[1] = lower(request.method) \o "_"
                                 \o request_type(request.view, request.action)
              /\ LookedUp[2] = "" =>
                    /\ outcome = Raised(NotImplementedError)
                    /\ IsError(response, 501, 50100)
                    /\ At("pre_dispatch") = 0
                    /\ At("call") = 0
                    /\ At("post_dispatch") = 0
        /\ (At("pre_dispatch") # 0 /\ At("call") = 0) => outcome.tag = "raised"
        /\ (At("call") # 0 /\ At("returned") = 0) => outcome.tag = "raised"

\* C17, reached: a dispatch went through every step, in order.
C17_Witness ==
    /\ Served
    /\ At("method_check") # 0
    /\ At("method_check") < At("getattr")
    /\ At("getattr") < At("pre_dispatch")
    /\ At("pre_dispatch") < At("call")
    /\ At("call") < At("post_dispatch")
    /\ outcome.tag = "returned"

\* What the pre-hook was called with and what it returned (<<>> for None),
\* what the handler was invoked with, and what the post-hook returned.
PreArgs == trace[At("pre_dispatch")].args[1]
PreReturned == trace[At("pre_returned")].args[1]
CallKwargs == trace[At("call")].args[3]
PostReturned == trace[At("post_returned")].args[1]

\* C18: a defined pre-hook is called with the keyword arguments of the
\* request; when it returns keyword arguments the handler is invoked with
\* exactly those, the original ones dropped, and when it returns None the
\* handler is invoked with the original ones; what a defined post-hook
\* returns, not what the handler returned, is the result of the dispatch.
\* (A value that is not None and cannot be keyword arguments, not being a
\* mapping, fails the invocation itself.)
C18_HooksOverrideArgsAndResult ==
    Served =>
        /\ At("pre_dispatch") # 0 => PreArgs = route_kwargs(request)
        /\ At("pre_returned") # 0 =>
              IF PreReturned = <<>>
              THEN At("call") # 0 /\ CallKwargs = route_kwargs(request)
              ELSE IF PreReturned[1].type = "dict"
              THEN At("call") # 0 /\ CallKwargs = PreReturned[1].items
              ELSE At("call") = 0 /\ outcome.tag = "raised" /\ outcome.exc.cls = "TypeError"
        /\ At("post_returned") # 0 => outcome = Returned(PostReturned)

\* C18, reached: the pre-hook of a detail request for resource 1 returned
\* other keyword arguments, the handler was invoked with those alone, and the
\* post-hook's value, not the handler's, was the result.
C18_Witness ==
    /\ Served
    /\ At("pre_returned") # 0
    /\ request.resource_id = "1"
    /\ PreArgs = {<<"resource_id", "1">>}
    /\ PreReturned = <<Dict({<<"resource_id", "2">>})>>
    /\ At("call") # 0
    /\ CallKwargs = {<<"resource_id", "2">>}
    /\ Calls("returned") # {}
    /\ trace[At("returned")].args[1] = Widget
    /\ At("post_returned") # 0
    /\ outcome = Returned(Tuple(<<Widget, 202>>))
    /\ response.status = 202

\* The verbs a class's own mixins register for each kind.
OwnListVerbs(bases) == {"get"} \cup (IF "CreateMixin" \in Elems(bases) THEN {"post"} ELSE {})
OwnDetailVerbs(bases) ==
    {"get"} \cup (IF "UpdateMixin" \in Elems(bases) THEN {"post"} ELSE {})
            \cup (IF "DeleteMixin" \in Elems(bases) THEN {"delete"} ELSE {})

\* No item of the sequence occurs twice.
NoRepeats(seq) == Cardinality(Elems(seq)) = Len(seq)

\* C19: after any constructions, the allowed-method lists an API sees hold
\* the verbs of its own class's mixins and nothing else (list: get, and post
\* only with Create; detail: get, post only with Update, delete only with
\* Delete), no verb twice; so no other construction changes them.
C19_AllowedListsFollowOwnMixins ==
    \A i \in 1..Len(apis) :
        /\ Elems(list_allowed_methods) = OwnListVerbs(apis[i])
        /\ Elems(detail_allowed_methods) = OwnDetailVerbs(apis[i])
        /\ NoRepeats(list_allowed_methods)
        /\ NoRepeats(detail_allowed_methods)

\* The method check found the verb of the request among the allowed ones.
MethodCheckPassed ==
    MethodChecked /\ AllowedArg # <<>> /\ lower(request.method) \in Elems(AllowedArg[1])

\* The method check found an entry, and the verb is not in it.
VerbNotAllowed ==
    MethodChecked /\ AllowedArg # <<>> /\ lower(request.method) \notin Elems(AllowedArg[1])

\* C20: handle_authorisation runs, once, in every dispatch whose method check
\* passed and in no other, after the method check and before the handler
\* lookup, the pre-hook and the handler; when it raises permission denied no
\* handler is looked up, neither hook nor the handler is invoked and the
\* answer is 403 with code 40300; a request whose verb is not allowed is
\* answered 405 without the authorisation hook being invoked.
C20_AuthorisationAfterMethodCheck ==
    Served =>
        /\ Cardinality(Calls("handle_authorisation")) <= 1
        /\ MethodCheckPassed <=> At("handle_authorisation") # 0
        /\ Before("method_check", "handle_authorisation")
        /\ Before("handle_authorisation", "getattr")
        /\ Before("handle_authorisation", "pre_dispatch")
        /\ Before("handle_authorisation", "call")
        /\ (At("handle_authorisation") # 0 /\ At("getattr") = 0) =>
              /\ outcome.tag = "raised"
              /\ At("pre_dispatch") = 0 /\ At("call") = 0 /\ At("post_dispatch") = 0
              /\ outcome.exc.cls = "PermissionDenied" =>
                    /\ IsError(response, 403, 40300)
                    /\ Body(response).message = "Permission denied"
        /\ VerbNotAllowed =>
              /\ IsError(response, 405, 40500)
              /\ At("handle_authorisation") = 0

\* C20, reached: the verb was allowed, the authorisation hook refused the
\* request, and it was answered 403 with no handler looked up.
C20_Witness ==
    /\ Served
    /\ MethodCheckPassed
    /\ At("handle_authorisation") = At("method_check") + 1
    /\ outcome = Raised(PermissionDenied("not yours"))
    /\ At("getattr") = 0
    /\ IsError(response, 403, 40300)

====
